---- MODULE Spec2Model ----
(***************************************************************************)
(* Radial ("spider-web") layout of the organic-chemistry compound map.     *)
(* Two scripts hold the algorithm: scripts/radial_layout.py ("orig") and   *)
(* scripts/radial_layout_fixed.py ("fixed").  Both are modelled; the       *)
(* variable version says which script is running.                          *)
(*                                                                         *)
(* Numbers: lengths are integer pixels, angles integer milliradians, and   *)
(* math.cos / math.sin are fixed-point series (value * 1000).  A distance  *)
(* that equals MIN_SPACING up to rounding may compare differently than in  *)
(* the scripts' floating point.                                            *)
(***************************************************************************)
EXTENDS Integers, Sequences, FiniteSets, TLC

(* ------------------------------------------------------------------ *)
(* Bounds of the model                                                  *)
(* ------------------------------------------------------------------ *)
\* at most this many edges of EdgePool in a generated document
MaxEdges == 2
\* the cap of one injected chunk of unvisited nodes (the scripts use 20;
\* scaled down so that a document of a few nodes exceeds it)
ChunkCap == 2
\* how many of the 360 values of hash(node_id) % 360 a process may draw
HashSamples == 2
\* the most nodes of a document that is laid out twice
RerunNodes == 3

(* ------------------------------------------------------------------ *)
(* Program constants                                                    *)
(* ------------------------------------------------------------------ *)
MIN_SPACING == 500
PRIMARY_RADIUS == 600
RADIUS_INCREMENT_FIXED == 600
RADIUS_INCREMENT_ORIG == 500
MAX_ATTEMPTS_FIXED == 50
MAX_ATTEMPTS_ORIG == 20
RADIUS_STEP_FIXED == 50
RADIUS_STEP_ORIG == 100
ANGLE_STEP_FIXED == 200
\* 2 * math.pi, in milliradians
TwoPi == 6283

Root == "benzene"

primary_connections ==
  << "benzaldehyde", "acetophenone", "nitrobenzene",
     "anisole", "cumene", "cyclohexa_1_4_diene" >>

\* random.seed(42): the first values of random.uniform(-0.1, 0.1), in mrad
JitterStream == << 28, -95, -45, -55, 47, 35, 78, -83, -16, -94, -56, 1 >>

(* ------------------------------------------------------------------ *)
(* Sequences and sets                                                   *)
(* ------------------------------------------------------------------ *)
Range(s) == { s[i] : i \in 1..Len(s) }

RECURSIVE Perms(_)
\* every order in which a Python set of these elements may be iterated
Perms(S) ==
  IF S = {} THEN { << >> }
  ELSE UNION { { << x >> \o p : p \in Perms(S \ {x}) } : x \in S }

Take(s, n) == SubSeq(s, 1, IF n < Len(s) THEN n ELSE Len(s))

Max(a, b) == IF a >= b THEN a ELSE b

(* ------------------------------------------------------------------ *)
(* math.cos, math.sin: fixed point, argument in mrad, value * 1000      *)
(* ------------------------------------------------------------------ *)
Sq(t) == (t * t) \div 1000

CosT(t) ==
  1000 - Sq(t) \div 2 + (Sq(t) * Sq(t)) \div 24000
       - (((Sq(t) * Sq(t)) \div 1000) * Sq(t)) \div 720000

SinT(t) == (t * (1000 - Sq(t) \div 6 + (Sq(t) * Sq(t)) \div 120000)) \div 1000

CosQ(t) == IF t <= 785 THEN CosT(t) ELSE SinT(1571 - t)
SinQ(t) == IF t <= 785 THEN SinT(t) ELSE CosT(1571 - t)

CosM(a) ==
  LET m == a % TwoPi IN
    IF m <= 1571 THEN CosQ(m)
    ELSE IF m <= 3142 THEN 0 - CosQ(3142 - m)
    ELSE IF m <= 4712 THEN 0 - CosQ(m - 3142)
    ELSE CosQ(TwoPi - m)

SinM(a) ==
  LET m == a % TwoPi IN
    IF m <= 1571 THEN SinQ(m)
    ELSE IF m <= 3142 THEN SinQ(3142 - m)
    ELSE IF m <= 4712 THEN 0 - SinQ(m - 3142)
    ELSE 0 - SinQ(TwoPi - m)

\* {'x': radius * math.cos(angle), 'y': radius * math.sin(angle)}
Polar(radius, angle) ==
  [ x |-> (radius * CosM(angle) + 500) \div 1000,
    y |-> (radius * SinM(angle) + 500) \div 1000 ]

\* math.sqrt((x - px)**2 + (y - py)**2) < MIN_SPACING
Closer(p, q) ==
  (p.x - q.x) * (p.x - q.x) + (p.y - q.y) * (p.y - q.y) < MIN_SPACING * MIN_SPACING

\* the too_close / min_distance_ok scan over positions.values()
TooClose(p, pos) == \E k \in DOMAIN pos : Closer(p, pos[k])

(* ------------------------------------------------------------------ *)
(* Input documents                                                      *)
(* ------------------------------------------------------------------ *)
\* data['nodes'] of a generated document lists its ids in this order
NodeOrder ==
  << "benzene", "benzaldehyde", "acetophenone", "toluene", "phenol", "aniline" >>

Edge(s, t, l) == [ source |-> s, target |-> t, label |-> l ]

\* data['edges'] of a generated document are drawn from these
EdgePool ==
  { Edge("benzene", "benzaldehyde", "Gattermann-Koch Reaction"),
    Edge("benzaldehyde", "toluene", "Oxidation"),
    Edge("benzaldehyde", "phenol", "Birch Reduction"),
    Edge("toluene", "aniline", "Nitration"),
    Edge("benzene", "aniline", ""),
    Edge("phenol", "phenol", "") }

GeneratedDocs ==
  { [ nodes |-> SelectSeq(NodeOrder, LAMBDA x : x \in S), edges |-> E ] :
      S \in SUBSET Range(NodeOrder),
      E \in { F \in SUBSET EdgePool : Cardinality(F) <= MaxEdges } }

\* five compounds, each one reaction away from benzaldehyde, each reaction
\* of a different category
CrowdedDoc ==
  [ nodes |-> << "benzene", "benzaldehyde", "toluene", "phenol", "aniline",
                 "styrene", "stilbene" >>,
    edges |-> { Edge("benzaldehyde", "toluene", "Gattermann-Koch Reaction"),
                Edge("benzaldehyde", "phenol", "Oxidation"),
                Edge("benzaldehyde", "aniline", "Cycloaddition"),
                Edge("benzaldehyde", "styrene", "Aldol Condensation"),
                Edge("benzaldehyde", "stilbene", "Pinacol Rearrangement") } ]

\* the reactions the script names for the six primary connections
StarEdges ==
  { Edge("benzene", "benzaldehyde", "Gattermann-Koch Reaction"),
    Edge("benzene", "acetophenone", "Friedel-Crafts Acylation"),
    Edge("benzene", "nitrobenzene", "Nitration"),
    Edge("benzene", "anisole", "Friedel-Crafts Alkylation"),
    Edge("benzene", "cumene", "Friedel-Crafts Alkylation"),
    Edge("benzene", "cyclohexa_1_4_diene", "Birch Reduction") }

FullOrder == << "benzene" >> \o primary_connections \o << "toluene", "phenol", "aniline" >>

\* documents that hold benzene, its six primary connections and their edges
StarDocs ==
  { [ nodes |-> SelectSeq(FullOrder, LAMBDA x : x \in S \/ x \notin { "toluene", "phenol", "aniline" }),
      edges |-> StarEdges \cup E ] :
      S \in SUBSET { "toluene", "phenol", "aniline" },
      E \in { F \in SUBSET EdgePool : Cardinality(F) <= MaxEdges } }

DenseOthers ==
  << "toluene", "phenol", "aniline", "styrene", "stilbene", "xylene", "cresol",
     "anisidine", "benzoic_acid", "benzyl_alcohol", "benzonitrile", "biphenyl" >>

\* benzene, its six primary connections, and two compounds one reaction away
\* from each primary connection: a ring of twelve
DenseDoc ==
  [ nodes |-> << "benzene" >> \o primary_connections \o DenseOthers,
    edges |-> StarEdges \cup
                { Edge(primary_connections[(i + 1) \div 2], DenseOthers[i], "") : i \in 1..12 } ]

Docs == GeneratedDocs \cup StarDocs \cup { CrowdedDoc, DenseDoc }

Versions == { "fixed", "orig" }

(* ------------------------------------------------------------------ *)
(* State                                                                *)
(* ------------------------------------------------------------------ *)
VARIABLES
  version,        \* which script runs
  doc,            \* data: the loaded document (nodes: list of ids, edges)
  pc,             \* the step the script is at
  graph,          \* the adjacency dict: key -> set of neighbours
  positions,      \* id -> [x, y]
  placed_nodes,
  primary_angles, \* id -> angle
  rings,          \* list of lists of ids
  visited,
  current_ring,
  ring_index,     \* the ring being positioned (index into rings[1:], from 1)
  node_index,     \* how many nodes of that ring are positioned
  draws,          \* how many values the seeded random stream has handed out
  output,         \* node id -> the 'position' written on data['nodes']
  report,         \* what verify_layout printed
  ring_kind,      \* for each ring, the branch that appended it
  place_log,      \* id -> the outcome of its spacing-repair loop
  run,            \* 1: first run of main(); 2: a second run on the same document
  prev            \* rings and output of the first run

vars ==
  << version, doc, pc, graph, positions, placed_nodes, primary_angles, rings,
     visited, current_ring, ring_index, node_index, draws, output, report,
     ring_kind, place_log, run, prev >>

EmptyFn == [ k \in {} |-> 0 ]

\* d[k] = v
Put(d, k, v) == [ j \in DOMAIN d \cup {k} |-> IF j = k THEN v ELSE d[j] ]

NoReport == [ printed |-> FALSE ]

node_ids == Range(doc.nodes)

(* ------------------------------------------------------------------ *)
(* Step 0: primaries that exist, adjacency, edge labels                 *)
(* ------------------------------------------------------------------ *)
\* fixed: existing_primaries; orig: list(primary_connections.keys())
ExistingPrimaries(v, ids) ==
  IF v = "fixed"
    THEN SelectSeq(primary_connections, LAMBDA x : x \in ids)
    ELSE primary_connections

\* the edges that reach the adjacency dict
KeptEdges(v, ids, E) ==
  IF v = "fixed"
    THEN { e \in E : e.source \in ids /\ e.target \in ids }
    ELSE E

Adjacency(v, ids, E) ==
  LET kept == KeptEdges(v, ids, E)
      keys == { e.source : e \in kept } \cup { e.target : e \in kept }
  IN  [ k \in keys |->
          { e.target : e \in { f \in kept : f.source = k } }
            \cup { e.source : e \in { f \in kept : f.target = k } } ]

\* graph[k] when k is a key; fixed guards the read with "if node in graph",
\* orig reads the defaultdict (an empty set for a missing key)
Neighbours(g, k) == IF k \in DOMAIN g THEN g[k] ELSE {}

BuildGraph ==
  /\ pc = "load"
  /\ graph' = Adjacency(version, node_ids, doc.edges)
  /\ pc' = "root"
  /\ UNCHANGED << version, doc, positions, placed_nodes, primary_angles, rings,
                  visited, current_ring, ring_index, node_index, draws, output,
                  report, ring_kind, place_log, run, prev >>

(* ------------------------------------------------------------------ *)
(* Step 1: benzene at the centre                                        *)
(* ------------------------------------------------------------------ *)
PlaceRoot ==
  /\ pc = "root"
  /\ positions' = Put(positions, Root, [ x |-> 0, y |-> 0 ])
  /\ placed_nodes' = placed_nodes \cup { Root }
  /\ pc' = "primaries"
  /\ UNCHANGED << version, doc, graph, primary_angles, rings, visited,
                  current_ring, ring_index, node_index, draws, output, report,
                  ring_kind, place_log, run, prev >>

(* ------------------------------------------------------------------ *)
(* Step 2: primary connections on the first ring                        *)
(* ------------------------------------------------------------------ *)
\* angle of the i-th (from 0) of the primaries that are placed
PrimaryAngle(i, n) == (i * TwoPi) \div n

\* how many slots the first ring is divided into
PrimarySlots(v, ids) ==
  IF v = "fixed" THEN Len(ExistingPrimaries(v, ids)) ELSE Len(primary_connections)

PrimaryAngles(v, ids) ==
  LET ps == ExistingPrimaries(v, ids)
  IN  [ k \in Range(ps) |->
          PrimaryAngle((CHOOSE i \in 1..Len(ps) : ps[i] = k) - 1, PrimarySlots(v, ids)) ]

PlacePrimaries ==
  /\ pc = "primaries"
  /\ primary_angles' = PrimaryAngles(version, node_ids)
  /\ positions' =
       [ k \in DOMAIN positions \cup DOMAIN primary_angles' |->
           IF k \in DOMAIN primary_angles'
             THEN Polar(PRIMARY_RADIUS, primary_angles'[k])
             ELSE positions[k] ]
  /\ placed_nodes' = placed_nodes \cup DOMAIN primary_angles'
  /\ pc' = "rings"
  /\ UNCHANGED << version, doc, graph, rings, visited, current_ring, ring_index,
                  node_index, draws, output, report, ring_kind, place_log, run,
                  prev >>

(* ------------------------------------------------------------------ *)
(* Step 3: rings                                                        *)
(* ------------------------------------------------------------------ *)
\* visited = set() instead of set(['benzene'])
InitialVisitedEmpty == {}

\* visited = set(['benzene'])
InitialVisited == { Root }

InitRings ==
  /\ pc = "rings"
  /\ current_ring' = ExistingPrimaries(version, node_ids)
  /\ visited' = InitialVisited \cup Range(current_ring')
  /\ rings' = << current_ring' >>
  /\ ring_kind' = << "anchors" >>
  /\ pc' = "loop"
  /\ UNCHANGED << version, doc, graph, positions, placed_nodes, primary_angles,
                  ring_index, node_index, draws, output, report, place_log, run,
                  prev >>

\* the while condition
LoopCond(v, ids, g, vis) ==
  IF v = "fixed"
    THEN Cardinality(vis) < Cardinality(ids)
    ELSE Cardinality(vis) < Cardinality({ n \in ids : n \in DOMAIN g })

\* the test of the inner loop without "neighbor not in visited"
AdmitsVisited(v, ids, vis, x) ==
  IF v = "fixed" THEN x \in ids ELSE TRUE

\* "neighbor not in visited [and neighbor in node_ids]"
Admits(v, ids, vis, x) ==
  IF v = "fixed" THEN x \notin vis /\ x \in ids ELSE x \notin vis

RECURSIVE Expansions(_, _, _, _, _, _)
\* the for loops over current_ring and graph[node]: every next_ring they can
\* build, a neighbour set handing out its elements in any order
Expansions(v, ids, g, ring, i, vis) ==
  IF i > Len(ring) THEN { << >> }
  ELSE LET new == { x \in Neighbours(g, ring[i]) : Admits(v, ids, vis, x) }
       IN  UNION { { p \o rest : rest \in Expansions(v, ids, g, ring, i + 1, vis \cup new) } :
                   p \in Perms(new) }

\* orig reads graph[node] of a defaultdict: a missing key is inserted
GraphAfterReads(v, g, ring) ==
  IF v = "fixed" THEN g
  ELSE [ k \in DOMAIN g \cup Range(ring) |-> Neighbours(g, k) ]

\* chunk_size = min(20, len(remaining)); next_ring = remaining[:chunk_size]
Chunk(remaining) == Take(remaining, ChunkCap)

\* "remaining" / "unvisited" without the filter on visited
RemainingListsUnfiltered(v, nodes, g, vis) ==
  IF v = "fixed"
    THEN { nodes }
    ELSE { SelectSeq(nodes, LAMBDA n : n \in DOMAIN g) }

\* the lists "remaining" / "unvisited" can be, in every order they can have
RemainingLists(v, nodes, g, vis) ==
  IF v = "fixed"
    THEN Perms(Range(nodes) \ vis)
    ELSE { SelectSeq(nodes, LAMBDA n : n \notin vis /\ n \in DOMAIN g) }

(* ------------------------------------------------------------------ *)
(* The order in which the nodes of a ring are positioned                *)
(* ------------------------------------------------------------------ *)
\* which of the keywords the script looks for occur in label.lower()
LabelKeywords(label) ==
  CASE label = "Oxidation" -> { "oxidation" }
    [] label = "Epoxidation" -> { "oxidation", "epoxidation" }
    [] label = "Birch Reduction" -> { "reduction" }
    [] label = "Nitration" -> { "nitration" }
    [] label = "Cycloaddition" -> { "addition", "cyclo" }
    [] label = "Aldol Condensation" -> { "condensation", "aldol" }
    [] label = "Pinacol Rearrangement" -> { "rearrang" }
    [] label = "Friedel-Crafts Acylation" -> { "friedel", "acylation" }
    [] label = "Friedel-Crafts Alkylation" -> { "friedel", "alkylation" }
    [] OTHER -> { }

\* the keywords of the labels edge_reactions holds for (node_id, connected_node)
ReactionKeywords(E, node_id, connections) ==
  UNION { LabelKeywords(e.label) :
            e \in { f \in E : \/ f.source = node_id /\ f.target \in connections
                              \/ f.target = node_id /\ f.source \in connections } }

\* the if / elif chain over the keywords found
CategoryOf(kw) ==
  IF kw \cap { "friedel", "acylation", "alkylation" } # {} THEN "Friedel-Crafts"
  ELSE IF kw \cap { "oxidation", "epoxidation" } # {} THEN "Oxidation"
  ELSE IF kw \cap { "reduction", "hydrog" } # {} THEN "Reduction"
  ELSE IF kw \cap { "substitution", "halogen", "nitration" } # {} THEN "Substitution"
  ELSE IF kw \cap { "addition", "cyclo" } # {} THEN "Addition"
  ELSE IF kw \cap { "condensation", "aldol" } # {} THEN "Condensation"
  ELSE IF kw \cap { "rearrang", "migration" } # {} THEN "Rearrangement"
  ELSE "Other"

categorize_by_reaction_type(E, node_id, connections) ==
  CategoryOf(ReactionKeywords(E, node_id, connections))

RECURSIVE FirstSeen(_)
\* the keys of a dict filled in this order
FirstSeen(s) ==
  IF s = << >> THEN << >>
  ELSE LET h == s[Len(s)]
           t == FirstSeen(SubSeq(s, 1, Len(s) - 1))
       IN  IF h \in Range(t) THEN t ELSE Append(t, h)

RECURSIVE Flatten(_)
Flatten(ss) == IF ss = << >> THEN << >> ELSE Head(ss) \o Flatten(Tail(ss))

\* orig: the ring's nodes that are keys of graph, with their category
Categorized(g, E, ring) ==
  [ i \in 1..Len(ring) |->
      [ id |-> ring[i], cat |-> categorize_by_reaction_type(E, ring[i], Neighbours(g, ring[i])) ] ]

\* the buckets of ring_categories for these keys, in the order they were made
BucketsOf(cz, cats) ==
  [ b \in 1..Len(cats) |-> SelectSeq(cz, LAMBDA c : c.cat = cats[b]) ]

\* the positioning order of orig: bucket after bucket, every node with the
\* number of buckets and the size of its bucket
BucketOrder(bs) ==
  Flatten([ b \in 1..Len(bs) |->
             [ i \in 1..Len(bs[b]) |->
                 [ id |-> bs[b][i].id, cat |-> bs[b][i].cat,
                   nb |-> Len(bs), m |-> Len(bs[b]) ] ] ])

CategoriesOf(cz) == FirstSeen([ i \in 1..Len(cz) |-> cz[i].cat ])

OrigOrder(cz) == BucketOrder(BucketsOf(cz, CategoriesOf(cz)))

\* the nodes in the order the positioning loop takes them
PlacementOrder(v, g, E, ring) ==
  IF v = "fixed"
    THEN [ i \in 1..Len(ring) |-> [ id |-> ring[i], cat |-> "Other", nb |-> 1, m |-> Len(ring) ] ]
    ELSE OrigOrder(Categorized(g, E, SelectSeq(ring, LAMBDA n : n \in DOMAIN g)))

RECURSIVE NextSlot(_, _, _, _, _)
\* the next (ring, node) the positioning loops reach from (ri, ni); ri beyond
\* the last ring when there is none
NextSlot(v, g, rs, ri, ni) ==
  IF ri > Len(rs) - 1 THEN [ r |-> ri, n |-> 0 ]
  ELSE IF ni < Len(SelectSeq(rs[ri + 1], LAMBDA x : v = "fixed" \/ x \in DOMAIN g))
         THEN [ r |-> ri, n |-> ni ]
         ELSE NextSlot(v, g, rs, ri + 1, 0)

\* where the script goes when the positioning loops are at slot s
SlotPc(v, s, rs) ==
  IF s.r <= Len(rs) - 1 THEN "position"
  ELSE IF v = "fixed" THEN "unplaced" ELSE "update"

AfterLoopSlot(v, g, rs) ==
  IF v = "fixed" THEN NextSlot(v, g, rs, 1, 0) ELSE [ r |-> 0, n |-> 0 ]

AfterLoopPc(v, g, rs) ==
  IF v = "fixed" THEN SlotPc(v, AfterLoopSlot(v, g, rs), rs) ELSE "remaining"

\* one pass of the while loop body
RingIterate ==
  /\ pc = "loop"
  /\ LoopCond(version, node_ids, graph, visited)
  /\ graph' = GraphAfterReads(version, graph, current_ring)
  /\ \E expanded \in Expansions(version, node_ids, graph, current_ring, 1, visited) :
           IF expanded # << >>
             THEN /\ rings' = Append(rings, expanded)
                  /\ ring_kind' = Append(ring_kind, "frontier")
                  /\ current_ring' = expanded
                  /\ visited' = visited \cup Range(expanded)
                  /\ pc' = "loop"
                  /\ UNCHANGED << ring_index, node_index >>
             ELSE \E next_ring \in
                       { Chunk(r) : r \in RemainingLists(version, doc.nodes, graph', visited) } :
                    IF next_ring # << >>
                      THEN /\ rings' = Append(rings, next_ring)
                           /\ ring_kind' = Append(ring_kind, "chunk")
                           /\ current_ring' = next_ring
                           /\ visited' = visited \cup Range(next_ring)
                           /\ pc' = "loop"
                           /\ UNCHANGED << ring_index, node_index >>
                      ELSE /\ pc' = AfterLoopPc(version, graph', rings)
                           /\ ring_index' = AfterLoopSlot(version, graph', rings).r
                           /\ node_index' = AfterLoopSlot(version, graph', rings).n
                           /\ UNCHANGED << rings, ring_kind, current_ring, visited >>
  /\ UNCHANGED << version, doc, positions, placed_nodes, primary_angles,
                  draws, output, report, place_log, run, prev >>

\* the while condition is false
LoopExit ==
  /\ pc = "loop"
  /\ ~ LoopCond(version, node_ids, graph, visited)
  /\ pc' = AfterLoopPc(version, graph, rings)
  /\ ring_index' = AfterLoopSlot(version, graph, rings).r
  /\ node_index' = AfterLoopSlot(version, graph, rings).n
  /\ UNCHANGED << version, doc, graph, positions, placed_nodes, primary_angles,
                  rings, visited, current_ring, draws, output, report, ring_kind,
                  place_log, run, prev >>

\* orig, step 4: rings.append(list(remaining_nodes))
AddRemaining ==
  /\ pc = "remaining"
  /\ \E rest \in Perms(node_ids \ visited) :
       IF rest # << >>
         THEN /\ rings' = Append(rings, rest)
              /\ ring_kind' = Append(ring_kind, "overflow")
         ELSE UNCHANGED << rings, ring_kind >>
  /\ LET s == NextSlot(version, graph, rings', 1, 0)
     IN  /\ pc' = SlotPc(version, s, rings')
         /\ ring_index' = s.r
         /\ node_index' = s.n
  /\ UNCHANGED << version, doc, graph, positions, placed_nodes, primary_angles,
                  visited, current_ring, draws, output, report, place_log, run,
                  prev >>

(* ------------------------------------------------------------------ *)
(* Positioning one node: radius, angle, spacing repair                  *)
(* ------------------------------------------------------------------ *)
RadiusIncrement(v) == IF v = "fixed" THEN RADIUS_INCREMENT_FIXED ELSE RADIUS_INCREMENT_ORIG
MaxAttempts(v) == IF v = "fixed" THEN MAX_ATTEMPTS_FIXED ELSE MAX_ATTEMPTS_ORIG

\* radius = max(base_radius, min_radius_for_spacing), and orig's widening
RingRadius(v, ri, n) ==
  LET base_radius == PRIMARY_RADIUS + ri * RadiusIncrement(v)
      min_radius_for_spacing == (n * MIN_SPACING * 1000) \div TwoPi
      radius == Max(base_radius, min_radius_for_spacing)
      angle_per_node == TwoPi \div n
      min_angle_for_spacing == (MIN_SPACING * 1000) \div radius
  IN  IF v = "orig" /\ angle_per_node < min_angle_for_spacing
        THEN (((MIN_SPACING * 1000) \div angle_per_node) * 11) \div 10
        ELSE radius

\* best_primary_angle of a category
BestPrimaryAngle(cat, pa) ==
  CASE cat = "Friedel-Crafts" ->
         IF "acetophenone" \in DOMAIN pa THEN pa["acetophenone"]
         ELSE IF "anisole" \in DOMAIN pa THEN pa["anisole"]
         ELSE IF "cumene" \in DOMAIN pa THEN pa["cumene"]
         ELSE 0
    [] cat = "Substitution" ->
         IF "nitrobenzene" \in DOMAIN pa THEN pa["nitrobenzene"] ELSE 0
    [] cat = "Reduction" ->
         IF "cyclohexa_1_4_diene" \in DOMAIN pa THEN pa["cyclohexa_1_4_diene"] ELSE 0
    [] OTHER -> 0

\* the angle before repair of the node at index idx of a ring of n nodes;
\* slot is its PlacementOrder entry, jitter the random.uniform value (fixed)
StartAngle(v, slot, idx, n, pa, jitter) ==
  IF v = "fixed" THEN (idx * TwoPi) \div n + jitter
  ELSE IF slot.nb > 1
         THEN BestPrimaryAngle(slot.cat, pa) + ((idx % slot.m) * TwoPi) \div (n * slot.nb)
         ELSE (idx * TwoPi) \div n

\* what a failed attempt does to the radius and to the angle
NextRadius(v, attempts, radius) ==
  IF v = "fixed"
    THEN IF attempts % 2 = 0 THEN radius + RADIUS_STEP_FIXED ELSE radius
    ELSE radius + RADIUS_STEP_ORIG

NextAngle(v, attempts, angle) ==
  IF v = "fixed" /\ attempts % 2 = 1 THEN angle + ANGLE_STEP_FIXED ELSE angle

RECURSIVE Repair(_, _, _, _, _)
\* the while attempts < max_attempts loop: the position stored, the value of
\* attempts when the loop ends, and whether the last check found the spacing
Repair(v, attempts, radius, angle, pos) ==
  LET cand == Polar(radius, angle)
  IN  IF ~ TooClose(cand, pos)
        THEN [ p |-> cand, attempts |-> attempts, ok |-> TRUE ]
      ELSE IF attempts + 1 >= MaxAttempts(v)
        THEN [ p |-> cand, attempts |-> attempts + 1, ok |-> FALSE ]
      ELSE Repair(v, attempts + 1, NextRadius(v, attempts, radius),
                  NextAngle(v, attempts, angle), pos)

RECURSIVE Tried(_, _, _, _, _), TriedFrom(_, _, _, _, _, _)
\* the passes of the while loop, one entry per distance check: the value of
\* attempts, the adjusted_radius and the angle the candidate was computed
\* from, and whether the check found the spacing
Tried(v, attempts, radius, angle, pos) ==
  TriedFrom(v, attempts, radius, angle, pos, ~ TooClose(Polar(radius, angle), pos))

TriedFrom(v, attempts, radius, angle, pos, ok) ==
  << [ attempts |-> attempts, radius |-> radius, angle |-> angle, ok |-> ok ] >> \o
  ( IF ok \/ attempts + 1 >= MaxAttempts(v)
      THEN << >>
      ELSE Tried(v, attempts + 1, NextRadius(v, attempts, radius),
                 NextAngle(v, attempts, angle), pos) )

Jitter(v, k) == IF v = "fixed" THEN JitterStream[(k % Len(JitterStream)) + 1] ELSE 0

\* one pass of the innermost for loop of the positioning step
PlaceNode ==
  /\ pc = "position"
  /\ \E slot \in { PlacementOrder(version, graph, doc.edges,
                                    rings[ring_index + 1])[node_index + 1] } :
     \E res \in { Repair(version, 0,
                         RingRadius(version, ring_index, Len(rings[ring_index + 1])),
                         StartAngle(version, slot, node_index,
                                    Len(rings[ring_index + 1]), primary_angles,
                                    Jitter(version, draws)),
                         positions) } :
     \E s \in { NextSlot(version, graph, rings, ring_index, node_index + 1) } :
         /\ positions' = Put(positions, slot.id, res.p)
         /\ placed_nodes' = placed_nodes \cup { slot.id }
         /\ place_log' = Put(place_log, slot.id,
                             [ attempts |-> res.attempts, ok |-> res.ok,
                               tried |-> Tried(version, 0,
                                   RingRadius(version, ring_index, Len(rings[ring_index + 1])),
                                   StartAngle(version, slot, node_index,
                                              Len(rings[ring_index + 1]), primary_angles,
                                              Jitter(version, draws)),
                                   positions) ])
         /\ ring_index' = s.r
         /\ node_index' = s.n
         /\ pc' = SlotPc(version, s, rings)
  /\ draws' = IF version = "fixed" THEN draws + 1 ELSE draws
  /\ UNCHANGED << version, doc, graph, primary_angles, rings, visited,
                  current_ring, output, report, ring_kind, run, prev >>

(* ------------------------------------------------------------------ *)
(* fixed, step 5: nodes no ring holds                                   *)
(* ------------------------------------------------------------------ *)
UnplacedPositions(order, nrings) ==
  [ k \in Range(order) |->
      Polar(PRIMARY_RADIUS + nrings * RADIUS_INCREMENT_FIXED,
            (((CHOOSE i \in 1..Len(order) : order[i] = k) - 1) * TwoPi) \div Len(order)) ]

PlaceUnplaced ==
  /\ pc = "unplaced"
  /\ \E order \in Perms(node_ids \ placed_nodes) :
       LET up == UnplacedPositions(order, Len(rings))
       IN  positions' = [ k \in DOMAIN positions \cup DOMAIN up |->
                            IF k \in DOMAIN up THEN up[k] ELSE positions[k] ]
  /\ pc' = "update"
  /\ UNCHANGED << version, doc, graph, placed_nodes, primary_angles, rings,
                  visited, current_ring, ring_index, node_index, draws, output,
                  report, ring_kind, place_log, run, prev >>

(* ------------------------------------------------------------------ *)
(* Step 6: write the positions on data['nodes']                         *)
(* ------------------------------------------------------------------ *)
\* the values hash(node_id) % 360 takes in the processes of the model
HashDegrees == { (k * 360) \div HashSamples : k \in 0..(HashSamples - 1) }

\* orig: the fallback position of a node without one
Fallback(degrees, nrings) ==
  Polar(PRIMARY_RADIUS + nrings * RADIUS_INCREMENT_ORIG, (degrees * TwoPi) \div 360)

\* step 6 without the fallback of a node that has no position
PositionedWithoutFallback(v, ids, pos) == ids \cap DOMAIN pos

\* the ids of data['nodes'] that get a 'position', h: id -> hash(id) % 360
Positioned(v, ids, pos) ==
  IF v = "fixed" THEN ids \cap DOMAIN pos ELSE ids

UpdateData ==
  /\ pc = "update"
  /\ \E h \in [ node_ids \ DOMAIN positions -> HashDegrees ] :
       output' = [ k \in Positioned(version, node_ids, positions) |->
                     IF k \in DOMAIN positions THEN positions[k]
                     ELSE Fallback(h[k], Len(rings)) ]
  /\ pc' = IF version = "fixed" THEN "verify" ELSE "done"
  /\ UNCHANGED << version, doc, graph, positions, placed_nodes, primary_angles,
                  rings, visited, current_ring, ring_index, node_index, draws,
                  report, ring_kind, place_log, run, prev >>

(* ------------------------------------------------------------------ *)
(* fixed: verify_layout                                                 *)
(* ------------------------------------------------------------------ *)
\* the ids of data['nodes'] that carry a position, in list order
WithPosition(nodes, out) == SelectSeq(nodes, LAMBDA n : n \in DOMAIN out)

Min(a, b) == IF a <= b THEN a ELSE b

\* the pairs the sampled minimum-distance check looks at (indices from 0)
SampledPairs(n) ==
  { << i, j >> \in (0..(Min(20, n) - 1)) \X (0..(n - 1)) :
      i + 1 <= j /\ j <= Min(i + 10, n) - 1 }

\* min_distance >= 500, for the sampled pairs at a distance > 0
SampleSpaced(nodes, out) ==
  LET ps == WithPosition(nodes, out)
  IN  \A pr \in SampledPairs(Len(ps)) :
        LET a == out[ps[pr[1] + 1]]
            b == out[ps[pr[2] + 1]]
        IN  a = b \/ ~ Closer(a, b)

VerifyLayout(nodes, out) ==
  [ printed |-> TRUE,
    benzene_at_center |-> Root \in DOMAIN out /\ out[Root] = [ x |-> 0, y |-> 0 ],
    nodes_with_positions |-> Len(WithPosition(nodes, out)),
    spacing_maintained |-> SampleSpaced(nodes, out) ]

Verify ==
  /\ pc = "verify"
  /\ report' = VerifyLayout(doc.nodes, output)
  /\ pc' = "done"
  /\ UNCHANGED << version, doc, graph, positions, placed_nodes, primary_angles,
                  rings, visited, current_ring, ring_index, node_index, draws,
                  output, ring_kind, place_log, run, prev >>

(* ------------------------------------------------------------------ *)
(* The runs                                                             *)
(* ------------------------------------------------------------------ *)
NoPrev == [ rings |-> << >>, output |-> EmptyFn ]

Init ==
  /\ version \in Versions
  /\ doc \in Docs
  /\ pc = "load"
  /\ graph = EmptyFn
  /\ positions = EmptyFn
  /\ placed_nodes = {}
  /\ primary_angles = EmptyFn
  /\ rings = << >>
  /\ visited = {}
  /\ current_ring = << >>
  /\ ring_index = 0
  /\ node_index = 0
  /\ draws = 0
  /\ output = EmptyFn
  /\ report = NoReport
  /\ ring_kind = << >>
  /\ place_log = EmptyFn
  /\ run = 1
  /\ prev = NoPrev

\* main() is started again, in a new process, on the same document, with the
\* same constants and the same seed
Rerun ==
  /\ pc = "done"
  /\ run = 1
  /\ run' = 2
  /\ prev' = [ rings |-> rings, output |-> output ]
  /\ pc' = "load"
  /\ graph' = EmptyFn
  /\ positions' = EmptyFn
  /\ placed_nodes' = {}
  /\ primary_angles' = EmptyFn
  /\ rings' = << >>
  /\ visited' = {}
  /\ current_ring' = << >>
  /\ ring_index' = 0
  /\ node_index' = 0
  /\ draws' = 0
  /\ output' = EmptyFn
  /\ report' = NoReport
  /\ ring_kind' = << >>
  /\ place_log' = EmptyFn
  /\ UNCHANGED << version, doc >>

Next ==
  \/ BuildGraph
  \/ PlaceRoot
  \/ PlacePrimaries
  \/ InitRings
  \/ RingIterate
  \/ LoopExit
  \/ AddRemaining
  \/ PlaceNode
  \/ PlaceUnplaced
  \/ UpdateData
  \/ Verify

Spec == Init /\ [][Next]_vars

NextTwice == Next \/ Rerun

\* the documents that are laid out twice
InitTwice == Init /\ Len(doc.nodes) <= RerunNodes

\* two runs of the script on one document
SpecTwice == InitTwice /\ [][NextTwice]_vars

(* ================================================================== *)
(* Properties                                                           *)
(* ================================================================== *)
Origin == [ x |-> 0, y |-> 0 ]

RingBuilt == pc \in { "remaining", "position", "unplaced", "update", "verify", "done" }

\* the ids an edge of the document names that no node of the document has
DanglingIds ==
  UNION { { e.source, e.target } : e \in doc.edges } \ node_ids

\* the ids held by some ring
InRings == UNION { Range(rings[i]) : i \in 1..Len(rings) }

(* ------------------------------------------------------------------ *)
\* C1: when calculate_radial_layout has returned for a document that holds
\* the root, the nodes of data['nodes'] that carry a position are exactly the
\* ids of the document: none is left out, none is added.
AllNodesPositioned ==
  (pc = "done" /\ Root \in node_ids) => DOMAIN output = node_ids

\* a finished run on a document with the root, an isolated node, a dangling
\* edge and a node no ring positioned
AllNodesPositionedWitness ==
  /\ pc = "done"
  /\ Root \in node_ids
  /\ DanglingIds # {}
  /\ node_ids \ DOMAIN graph # {}
  /\ node_ids \ DOMAIN place_log # {}
  /\ DOMAIN output = node_ids

(* ------------------------------------------------------------------ *)
\* C2: for a document that holds the root, the root's position is (0, 0)
\* from the moment it is placed, through every ring, repair and fallback
\* step, and in the output.
RootAtOrigin ==
  Root \in node_ids =>
    /\ Root \in DOMAIN positions => positions[Root] = Origin
    /\ Root \in DOMAIN output => output[Root] = Origin
    /\ pc = "done" => Root \in DOMAIN output
    /\ Root \notin InRings

\* a finished run in which the root is a neighbour of a ring node, a ring
\* beyond the first was positioned and a spacing repair moved a node
RootAtOriginWitness ==
  /\ pc = "done"
  /\ Root \in node_ids
  /\ \E k \in InRings : Root \in Neighbours(graph, k)
  /\ Len(rings) >= 2
  /\ \E k \in DOMAIN place_log : place_log[k].attempts > 0
  /\ output[Root] = Origin

(* ------------------------------------------------------------------ *)
(* Graph distance, computed apart from the ring loop                    *)
(* ------------------------------------------------------------------ *)
RECURSIVE Within(_, _, _, _)
\* the ids at most d steps from the set from, along paths inside allowed
Within(g, from, allowed, d) ==
  IF d = 0 THEN from
  ELSE LET w == Within(g, from, allowed, d - 1)
       IN  w \cup { x \in UNION { Neighbours(g, n) : n \in w } : x \in allowed }

AllIds == DOMAIN graph \cup UNION { graph[k] : k \in DOMAIN graph } \cup node_ids

\* breadth-first distance of n from the set from (0 for its members), or -1
Distance(g, from, allowed, n) ==
  IF \E d \in 0..Cardinality(AllIds) : n \in Within(g, from, allowed, d)
    THEN CHOOSE d \in 0..Cardinality(AllIds) :
           /\ n \in Within(g, from, allowed, d)
           /\ d = 0 \/ n \notin Within(g, from, allowed, d - 1)
    ELSE 0 - 1

\* the number of the ring that holds n (the first ring of the list is ring 1)
RingOf(n) == CHOOSE i \in 1..Len(rings) : n \in Range(rings[i])

BuiltByExpansion(i) ==
  \A j \in 2..i : ring_kind[j] = "frontier"

Visitable == AllIds \cup { Root } \cup Range(primary_connections)

\* C4: the ring-building loop terminates on every document: every pass
\* either leaves the loop or adds at least one id to visited, visited never
\* leaves the finite set of ids the document and the anchors name, and a pass
\* or the exit is always possible while the script is in the loop.
RingLoopTerminates ==
  /\ [][(pc = "loop") =>
          \/ pc' # "loop"
          \/ (visited \subseteq visited' /\ visited' # visited)]_vars
  /\ [](pc = "loop" =>
          /\ visited \subseteq Visitable
          /\ Len(rings) <= Cardinality(Visitable)
          /\ ENABLED (RingIterate \/ LoopExit))

\* the loop has injected a full chunk and unvisited nodes remain, in a
\* document with a self-loop or a dangling edge
RingLoopTerminatesWitness ==
  /\ pc = "loop"
  /\ Len(rings) >= 2
  /\ ring_kind[Len(rings)] = "chunk"
  /\ Len(rings[Len(rings)]) = ChunkCap
  /\ node_ids \ visited # {}
  /\ \/ DanglingIds # {}
     \/ \E e \in doc.edges : e.source = e.target

(* ------------------------------------------------------------------ *)
\* no id occurs twice in the rings, inside one ring or in two
NoRepeats ==
  \A i, j \in 1..Len(rings) :
    \A k \in 1..Len(rings[i]), l \in 1..Len(rings[j]) :
      rings[i][k] = rings[j][l] => (i = j /\ k = l)

\* C5: when ring building has finished, every id of the document is in
\* exactly one ring, the root counting as ring 0: no id is repeated, and
\* every node but the root is in some ring.
RingsPartitionNodes ==
  RingBuilt /\ pc # "remaining" =>
    /\ NoRepeats
    /\ Root \notin InRings
    /\ node_ids \ { Root } \subseteq InRings

\* C5, for the documents that hold the root
RingsPartitionNodesWithRoot ==
  Root \in node_ids => RingsPartitionNodes

(* ------------------------------------------------------------------ *)
\* C6: two runs on the same document, with the same constants and the same
\* seed, build the same rings and write the same positions.
Deterministic ==
  (run = 2 /\ pc = "done") => (rings = prev.rings /\ output = prev.output)

(* ------------------------------------------------------------------ *)
\* the nodes for which a run records a SpacingUnsatisfied event: neither
\* script records any (orig's main prints that the spacing is maintained,
\* fixed's verify_layout prints one sampled minimum distance)
SpacingUnsatisfiedEvents == {}

\* C7: a node placed through the spacing-repair loop is stored at least
\* MIN_SPACING away from every position placed before it, or its attempts
\* were exhausted and the run records a SpacingUnsatisfied event for it.
SpacedOrReported ==
  \A k \in DOMAIN place_log :
    \/ place_log[k].ok
    \/ /\ place_log[k].attempts = MaxAttempts(version)
       /\ k \in SpacingUnsatisfiedEvents

(* ------------------------------------------------------------------ *)
\* C8: when the document does not hold the root the run aborts before it
\* computes anything: no adjacency, no position, no returned document.
MissingRootAborts ==
  Root \notin node_ids =>
    /\ pc \in { "load", "aborted" }
    /\ graph = EmptyFn
    /\ positions = EmptyFn
    /\ output = EmptyFn

(* ------------------------------------------------------------------ *)
\* C9: an id that an edge names and no node has is no key and no neighbour
\* of the adjacency, is in no ring and is not in the output.
DanglingEdgesDropped ==
  \A x \in DanglingIds :
    /\ x \notin DOMAIN graph
    /\ \A k \in DOMAIN graph : x \notin graph[k]
    /\ x \notin InRings
    /\ x \notin DOMAIN output

(* ------------------------------------------------------------------ *)
\* the primary anchors of the document, in the configured order
PresentAnchors == SelectSeq(primary_connections, LAMBDA x : x \in node_ids)

\* C10: a configured primary anchor the document does not hold is in no
\* ring 1, has no position and no angle, and the i-th of the n anchors that
\* exist is at angle i * 2 * pi / n on PRIMARY_RADIUS.
UnknownAnchorsSkipped ==
  pc \notin { "load", "root", "primaries" } =>
    /\ \A a \in Range(primary_connections) \ node_ids :
         /\ a \notin DOMAIN positions
         /\ a \notin DOMAIN primary_angles
         /\ rings # << >> => a \notin Range(rings[1])
    /\ \A i \in 1..Len(PresentAnchors) :
         /\ PresentAnchors[i] \in DOMAIN primary_angles
         /\ primary_angles[PresentAnchors[i]] = ((i - 1) * TwoPi) \div Len(PresentAnchors)
         /\ positions[PresentAnchors[i]] =
              Polar(PRIMARY_RADIUS, ((i - 1) * TwoPi) \div Len(PresentAnchors))

(* ------------------------------------------------------------------ *)
\* the radius step of the script that runs
RepairRadiusStep ==
  IF version = "fixed" THEN RADIUS_STEP_FIXED ELSE RADIUS_STEP_ORIG

\* the checks of one repair loop alternate: after a failed even-numbered
\* attempt the radius grows by the step and the angle stays, after a failed
\* odd-numbered attempt the angle moves and the radius stays
Alternates(tried) ==
  \A i \in 1..(Len(tried) - 1) :
    IF tried[i].attempts % 2 = 0
      THEN /\ tried[i + 1].radius = tried[i].radius + RepairRadiusStep
           /\ tried[i + 1].angle = tried[i].angle
      ELSE /\ tried[i + 1].radius = tried[i].radius
           /\ tried[i + 1].angle # tried[i].angle

\* C11: the spacing-repair loop of every node is bounded and alternating: it
\* makes at most MaxAttempts failed checks, a failed even-numbered attempt is
\* followed by a larger radius and a failed odd-numbered one by another
\* angle, it stops at the first candidate that is spaced, and a node whose
\* attempts are exhausted is stored at the last candidate while the run goes
\* on.
BoundedAlternatingRepair ==
  \A k \in DOMAIN place_log :
    LET tried == place_log[k].tried
        last == tried[Len(tried)]
    IN  /\ Len(tried) <= MaxAttempts(version)
        /\ \A i \in 1..(Len(tried) - 1) : ~ tried[i].ok
        /\ last.ok \/ Len(tried) = MaxAttempts(version)
        /\ Alternates(tried)
        /\ k \in DOMAIN positions
        /\ positions[k] = Polar(last.radius, last.angle)
        /\ ~ last.ok => (pc = "done" \/ ENABLED Next)

====
